---- MODULE Spec2Model ----
(***************************************************************************)
(* Model of app.py, the Flask application of the Market Analysis Dashboard. *)
(*                                                                         *)
(* The program is one page route ("/") and three view functions that each  *)
(* open <DATA_DIR>/<name>.json, json.load it and jsonify the result, with  *)
(* two except clauses.  The state is the data directory (owned by the      *)
(* environment), and, per request being served, the position of its view   *)
(* function, the locals of that call and the response it produced.         *)
(*                                                                         *)
(* File contents are sequences of JSON tokens.  json.load and jsonify are  *)
(* modelled by what they do on such a sequence (a recursive-descent parse  *)
(* into Python values, a key-sorted dump of Python values).                *)
(***************************************************************************)
EXTENDS Naturals, Sequences, FiniteSets, TLC

VARIABLES
    fs,        \* the files under DATA_DIR: path -> file state
    DATA_DIR,  \* the module-level global of app.py line 11
    pc,        \* request -> position of its view function
    route,     \* request -> the URL rule Flask matched for it
    seen,      \* request -> state of the resource's own file when the view opened it
    frame,     \* activation frame -> the locals of the view call (f, data, pending exception)
    response   \* request -> the response sent to the client

vars == <<fs, DATA_DIR, pc, route, seen, frame, response>>

(***************************************************************************)
(* Bounds.                                                                 *)
(***************************************************************************)
\* requests that can be in service at the same time
MaxClients == 2
\* file contents of up to this many tokens are enumerated exhaustively
MaxLen == 3

Clients == 1..MaxClients

(***************************************************************************)
(* JSON text: tokens.                                                      *)
(***************************************************************************)
\* A token is a string: a punctuator, a number literal, a bare literal name,
\* or else the content of a JSON string ("a" is the JSON text "a" in quotes).
LBRACE == "{"
RBRACE == "}"
COLON  == ":"
COMMA  == ","
StrA   == "a"
StrB   == "b"
Num1   == "1"
NumBig == "1e999"
NaNLit == "NaN"

Punctuators == {LBRACE, RBRACE, COLON, COMMA}
NumberLiterals == {Num1, NumBig}
BareLiterals == {NaNLit, "Infinity", "null"}

Kind(tok) ==
    IF tok \in Punctuators THEN "punct"
    ELSE IF tok \in NumberLiterals THEN "num"
    ELSE IF tok \in BareLiterals THEN "lit"
    ELSE "str"

Alphabet == {LBRACE, RBRACE, COLON, COMMA, StrA, StrB, Num1, NumBig, NaNLit}

Texts(n) == UNION {[1..m -> Alphabet] : m \in 0..n}

(***************************************************************************)
(* Python values, as json.load builds them and jsonify reads them.         *)
(***************************************************************************)
PyStr(s)     == [t |-> "str", v |-> s]
PyInt(s)     == [t |-> "int", v |-> s]
PyFloat(s)   == [t |-> "float", v |-> s]
PyDict(items) == [t |-> "dict", v |-> items]
PyNone       == [t |-> "None", v |-> ""]

\* JSON values in the sense of RFC 8259 (what a conforming client reads)
JString(s)   == [t |-> "string", v |-> s]
JNumber(s)   == [t |-> "number", v |-> s]
JObject(items) == [t |-> "object", v |-> items]

\* d[k] = v on an insertion-ordered mapping: a repeated key keeps its place
\* and takes the new value
Put(items, k, v) ==
    IF \E i \in 1..Len(items) : items[i][1] = k
    THEN [i \in 1..Len(items) |-> IF items[i][1] = k THEN <<k, v>> ELSE items[i]]
    ELSE Append(items, <<k, v>>)

Keys(items) == {items[i][1] : i \in 1..Len(items)}

Lookup(items, k) == items[CHOOSE i \in 1..Len(items) : items[i][1] = k][2]

(***************************************************************************)
(* json.load (line 32): the decoder of Python's json module.  Besides the  *)
(* JSON grammar it accepts the constants NaN, Infinity and -Infinity, and  *)
(* a number literal with an exponent becomes a float, which overflows to   *)
(* inf.  The "rfc8259" dialect is the JSON grammar itself: the reference   *)
(* a client parses the response with, and the meaning of "well-formed".    *)
(***************************************************************************)
IsFloatLiteral(s) == s \in {"1e999"}

Scalar(tok, dialect) ==
    IF Kind(tok) = "str" THEN
        [ok |-> TRUE, val |-> IF dialect = "python" THEN PyStr(tok) ELSE JString(tok)]
    ELSE IF Kind(tok) = "num" THEN
        IF dialect = "python"
        THEN [ok |-> TRUE,
              val |-> IF IsFloatLiteral(tok) THEN PyFloat("inf") ELSE PyInt(tok)]
        ELSE [ok |-> TRUE, val |-> JNumber(tok)]
    ELSE IF Kind(tok) = "lit" /\ dialect = "python" /\ tok \in {"NaN", "Infinity"} THEN
        [ok |-> TRUE, val |-> PyFloat(IF tok = "NaN" THEN "nan" ELSE "inf")]
    ELSE [ok |-> FALSE, val |-> PyNone]

MakeObject(items, dialect) ==
    IF dialect = "python" THEN PyDict(items) ELSE JObject(items)

ParseFail == [ok |-> FALSE, val |-> PyNone, rest |-> <<>>]

RECURSIVE ParseValue(_, _), ParseMembers(_, _, _)

\* one value at the front of s; rest is what follows it
ParseValue(s, dialect) ==
    IF s = <<>> THEN ParseFail
    ELSE IF Kind(Head(s)) \in {"str", "num", "lit"} THEN
        LET c == Scalar(Head(s), dialect) IN
        IF c.ok THEN [ok |-> TRUE, val |-> c.val, rest |-> Tail(s)] ELSE ParseFail
    ELSE IF Head(s) = LBRACE THEN
        IF Len(s) >= 2 /\ s[2] = RBRACE
        THEN [ok |-> TRUE, val |-> MakeObject(<<>>, dialect), rest |-> SubSeq(s, 3, Len(s))]
        ELSE ParseMembers(Tail(s), <<>>, dialect)
    ELSE ParseFail

\* s starts at a member name; items are the members read so far
ParseMembers(s, items, dialect) ==
    IF Len(s) < 3 \/ Kind(s[1]) # "str" \/ s[2] # COLON THEN ParseFail
    ELSE
        LET v == ParseValue(SubSeq(s, 3, Len(s)), dialect) IN
        IF ~v.ok \/ v.rest = <<>> THEN ParseFail
        ELSE IF Head(v.rest) = RBRACE THEN
            [ok |-> TRUE, val |-> MakeObject(Put(items, s[1], v.val), dialect),
             rest |-> Tail(v.rest)]
        ELSE IF Head(v.rest) = COMMA THEN
            ParseMembers(Tail(v.rest), Put(items, s[1], v.val), dialect)
        ELSE ParseFail

\* the whole text is one value (anything after it is "Extra data")
Decode(text, dialect) ==
    LET v == ParseValue(text, dialect) IN
    IF v.ok /\ v.rest = <<>> THEN [ok |-> TRUE, val |-> v.val]
    ELSE [ok |-> FALSE, val |-> PyNone]

loads(text) == Decode(text, "python")

(***************************************************************************)
(* jsonify (lines 33, 35, 37): json.dumps of the value with Flask's        *)
(* sort_keys; a float inf or nan is written as Infinity or NaN.            *)
(***************************************************************************)
KeyOrder == <<"a", "b", "error">>

SortedKeys(items) ==
    LET Has(k) == k \in Keys(items) IN SelectSeq(KeyOrder, Has)

RECURSIVE dumps(_), DumpMembers(_, _)

dumps(v) ==
    IF v.t = "str" THEN <<v.v>>
    ELSE IF v.t = "int" THEN <<v.v>>
    ELSE IF v.t = "float" THEN <<IF v.v = "nan" THEN "NaN" ELSE "Infinity">>
    ELSE IF v.t = "dict" THEN <<LBRACE>> \o DumpMembers(v.v, SortedKeys(v.v)) \o <<RBRACE>>
    ELSE <<"null">>

DumpMembers(items, keys) ==
    IF keys = <<>> THEN <<>>
    ELSE <<Head(keys), COLON>> \o dumps(Lookup(items, Head(keys)))
         \o (IF Tail(keys) = <<>> THEN <<>> ELSE <<COMMA>> \o DumpMembers(items, Tail(keys)))

(***************************************************************************)
(* The data directory.  A file is absent, present but not readable by the  *)
(* server, a directory, bytes that are not text in the default encoding,   *)
(* or text.  A missing data directory is every file absent: open() fails   *)
(* with ENOENT either way.                                                 *)
(***************************************************************************)
FileState(kind, content) == [kind |-> kind, content |-> content]

Absent   == FileState("absent", <<>>)
NoPerm   == FileState("noperm", <<>>)
IsDir    == FileState("dir", <<>>)
Binary   == FileState("binary", <<>>)
Text(c)  == FileState("text", c)

FileNames == {"marketShare.json", "revenueTrends.json", "marketSegmentation.json"}

os_path_join(dir, name) == <<dir, name>>

Paths == {os_path_join("data", n) : n \in FileNames}

\* {"a": 1, "b": 1}: the shape of the data files the dashboard ships with
GoodDoc == <<LBRACE, StrA, COLON, Num1, COMMA, StrB, COLON, Num1, RBRACE>>
\* {"a" : the start of an object, cut short
BadDoc  == <<LBRACE, StrA, COLON>>

SampleDocs ==
    { GoodDoc, BadDoc,
      <<LBRACE, StrB, COLON, Num1, COMMA, StrA, COLON, StrB, RBRACE>>,
      <<LBRACE, StrA, COLON, Num1, COMMA, StrA, COLON, StrB, RBRACE>>,
      <<LBRACE, StrA, COLON, LBRACE, StrB, COLON, Num1, RBRACE, RBRACE>>,
      <<LBRACE, StrA, COLON, Num1, COMMA, RBRACE>>,
      <<LBRACE, StrA, COLON, NumBig, RBRACE>>,
      <<LBRACE, StrA, COLON, NaNLit, RBRACE>>,
      <<LBRACE, StrA, COLON, Num1, RBRACE, RBRACE>> }

\* every state one backing file can be in
FileStates ==
    {Absent, NoPerm, IsDir, Binary} \cup {Text(c) : c \in Texts(MaxLen) \cup SampleDocs}

\* the states the environment moves the files between while requests are served
EditStates == {Absent, Text(BadDoc), Text(GoodDoc)}

(***************************************************************************)
(* open(path, mode) (lines 31, 47, 63) and the file object it returns.     *)
(***************************************************************************)
NoFile == [open |-> FALSE, mode |-> "r", file |-> Absent]

\* the file opened for writing instead
OpenMode_write == "w"

OpenMode == "r"

FileAt(fsys, path) == IF path \in DOMAIN fsys THEN fsys[path] ELSE Absent

open_(fsys, path, mode) ==
    LET st == FileAt(fsys, path) IN
    IF st.kind = "noperm" THEN [exc |-> "PermissionError", f |-> NoFile, fs |-> fsys]
    ELSE IF st.kind = "dir" THEN [exc |-> "IsADirectoryError", f |-> NoFile, fs |-> fsys]
    ELSE IF mode = "r" THEN
        IF st.kind = "absent"
        THEN [exc |-> "FileNotFoundError", f |-> NoFile, fs |-> fsys]
        ELSE [exc |-> "none", f |-> [open |-> TRUE, mode |-> "r", file |-> st], fs |-> fsys]
    ELSE \* "w" creates or truncates
        [exc |-> "none", f |-> [open |-> TRUE, mode |-> mode, file |-> Text(<<>>)],
         fs |-> [p \in DOMAIN fsys \cup {path} |-> IF p = path THEN Text(<<>>) ELSE fsys[p]]]

\* json.load(f) (lines 32, 48, 64): f.read(), then the decoder
json_load(f) ==
    IF ~f.open THEN [exc |-> "ValueError", val |-> PyNone]
    ELSE IF f.mode # "r" THEN [exc |-> "UnsupportedOperation", val |-> PyNone]
    ELSE IF f.file.kind = "binary" THEN [exc |-> "UnicodeDecodeError", val |-> PyNone]
    ELSE LET d == loads(f.file.content) IN
         IF d.ok THEN [exc |-> "none", val |-> d.val]
         ELSE [exc |-> "JSONDecodeError", val |-> PyNone]

\* f.close() after the load, without a with block: skipped when the load raises
with_exit_unless_raised(f, exc) == IF exc = "none" THEN [f EXCEPT !.open = FALSE] ELSE f

\* leaving the with block (lines 31-32): f.__exit__ closes the file whether
\* or not the body raised
with_exit(f, exc) == [f EXCEPT !.open = FALSE]

\* isinstance(e, cls) for the two classes the except clauses name
Subclasses(cls) ==
    IF cls = "FileNotFoundError" THEN {"FileNotFoundError"}
    ELSE IF cls = "JSONDecodeError" THEN {"JSONDecodeError"}
    ELSE {}

Caught(e, cls) == e \in Subclasses(cls)

(***************************************************************************)
(* Responses.                                                              *)
(***************************************************************************)
make_response(body, status) ==
    [status |-> status, mimetype |-> "application/json", body |-> body, fault |-> "none"]

NoResponse == [status |-> 0, mimetype |-> "", body |-> <<>>, fault |-> "none"]

jsonify(v) == dumps(v)

ErrorDict(msg) == PyDict(<<<<"error", PyStr(msg)>>>>)

\* return jsonify(data)  (lines 33, 49, 65)
on_success(data) == make_response(jsonify(data), 200)

\* the error body returned without its status code
on_FileNotFoundError_as_200 == make_response(jsonify(ErrorDict("Data file not found")), 200)

\* except FileNotFoundError  (lines 34-35, 50-51, 66-67)
on_FileNotFoundError == make_response(jsonify(ErrorDict("Data file not found")), 404)

\* except json.JSONDecodeError  (lines 36-37, 52-53, 68-69)
on_JSONDecodeError == make_response(jsonify(ErrorDict("Error decoding JSON")), 500)

\* an exception no except clause names leaves the view function; Flask
\* answers the request with its own 500 page
handle_exception(e) ==
    [status |-> 500, mimetype |-> "text/html",
     body |-> <<"<h1>Internal Server Error</h1>">>, fault |-> e]

\* the except clauses of a view, in order
except_clauses(e) ==
    IF Caught(e, "FileNotFoundError") THEN on_FileNotFoundError
    ELSE IF Caught(e, "JSONDecodeError") THEN on_JSONDecodeError
    ELSE handle_exception(e)

\* render_template('index.html') (line 21): the page, from the templates folder
TEMPLATES == {"index.html"}

render_template(name) ==
    IF name \in TEMPLATES
    THEN [status |-> 200, mimetype |-> "text/html",
          body |-> <<name>>, fault |-> "none"]
    ELSE handle_exception("TemplateNotFound")

\* the page rendered with the market share data read on the server
index_view_with_data(fsys, dir) ==
    LET o == open_(fsys, os_path_join(dir, "marketShare.json"), "r") IN
    IF o.exc = "none" THEN render_template("index.html") ELSE handle_exception(o.exc)

\* the body of index(): it is handed the data directory and does not look at it
index_view(fsys, dir) == render_template("index.html")

(***************************************************************************)
(* Routes and the file each view function names.                           *)
(***************************************************************************)
ApiRoutes == {"/api/marketShare", "/api/revenueTrends", "/api/marketSegmentation"}

\* a view copied from get_market_share with the file name left as it was
ViewFile_copied(rt) == "marketShare.json"

ViewFile(rt) ==
    IF rt = "/api/marketShare" THEN "marketShare.json"
    ELSE IF rt = "/api/revenueTrends" THEN "revenueTrends.json"
    ELSE "marketSegmentation.json"

\* the file each endpoint is documented to serve (docstrings of the views)
ResourceFile(rt) ==
    CASE rt = "/api/marketShare" -> "marketShare.json"
      [] rt = "/api/revenueTrends" -> "revenueTrends.json"
      [] rt = "/api/marketSegmentation" -> "marketSegmentation.json"

ResourcePath(rt) == <<"data", ResourceFile(rt)>>

\* the locals kept in module-level globals, shared by all calls
Frame_global(r) == 1

\* a call's locals live in its own activation frame
Frame(r) == r

EmptyFrame == [f |-> NoFile, data |-> PyNone, exc |-> "none"]

(***************************************************************************)
(* The state after app.py is imported: the three data files in place, no   *)
(* request in service.                                                     *)
(***************************************************************************)
Deployed == [p \in Paths |-> Text(GoodDoc)]

InitServer ==
    /\ DATA_DIR = "data"
    /\ pc = [r \in Clients |-> "idle"]
    /\ route = [r \in Clients |-> "/"]
    /\ seen = [r \in Clients |-> Absent]
    /\ frame = [r \in Clients |-> EmptyFrame]
    /\ response = [r \in Clients |-> NoResponse]

Init ==
    /\ fs = Deployed
    /\ InitServer

\* one of the files is in any state a file can be in
InitFile ==
    /\ \E p \in Paths, st \in FileStates : fs = [Deployed EXCEPT ![p] = st]
    /\ InitServer

(***************************************************************************)
(* A request arrives on a connection that is not being served: Flask       *)
(* matches its URL against the rules of lines 15, 24, 40 and 56 and calls  *)
(* the view function, which runs to its first statement.                   *)
(***************************************************************************)
Accepting(r) == pc[r] \in {"idle", "done"}

\* index()  (lines 15-21)
index(r) ==
    /\ Accepting(r)
    /\ route' = [route EXCEPT ![r] = "/"]
    /\ seen' = [seen EXCEPT ![r] = Absent]
    /\ response' = [response EXCEPT ![r] = index_view(fs, DATA_DIR)]
    /\ pc' = [pc EXCEPT ![r] = "done"]
    /\ UNCHANGED <<fs, DATA_DIR, frame>>

\* with open(os.path.join(DATA_DIR, '<name>.json'), 'r') as f:
\*     <name>_data = json.load(f)
\* The file object reads the file that was opened, whatever becomes of the
\* path afterwards, so the open and the read of it are one step.
Open(r, rt) ==
    /\ Accepting(r)
    /\ route' = [route EXCEPT ![r] = rt]
    /\ response' = [response EXCEPT ![r] = NoResponse]
    /\ LET path == os_path_join(DATA_DIR, ViewFile(rt))
           o == open_(fs, path, OpenMode)
           l == json_load(o.f)
       IN /\ fs' = o.fs
          /\ seen' = [seen EXCEPT ![r] = FileAt(fs, ResourcePath(rt))]
          /\ frame' = [frame EXCEPT ![Frame(r)] =
                          IF o.exc # "none"
                          THEN [f |-> o.f, data |-> PyNone, exc |-> o.exc]
                          ELSE [f |-> o.f, data |-> l.val, exc |-> l.exc]]
          /\ pc' = [pc EXCEPT ![r] = IF o.exc = "none" THEN "exit" ELSE "except"]
    /\ UNCHANGED DATA_DIR

\* the end of the with block, reached normally or by an exception
Exit(r, rt) ==
    /\ route[r] = rt
    /\ pc[r] = "exit"
    /\ frame' = [frame EXCEPT ![Frame(r)].f = with_exit(@, frame[Frame(r)].exc)]
    /\ pc' = [pc EXCEPT ![r] = IF frame[Frame(r)].exc = "none" THEN "return" ELSE "except"]
    /\ UNCHANGED <<fs, DATA_DIR, route, seen, response>>

\* return jsonify(<name>_data)
Return(r, rt) ==
    /\ route[r] = rt
    /\ pc[r] = "return"
    /\ response' = [response EXCEPT ![r] = on_success(frame[Frame(r)].data)]
    /\ frame' = [frame EXCEPT ![Frame(r)] = EmptyFrame]
    /\ pc' = [pc EXCEPT ![r] = "done"]
    /\ UNCHANGED <<fs, DATA_DIR, route, seen>>

\* except FileNotFoundError: ... except json.JSONDecodeError: ...
Except(r, rt) ==
    /\ route[r] = rt
    /\ pc[r] = "except"
    /\ response' = [response EXCEPT ![r] = except_clauses(frame[Frame(r)].exc)]
    /\ frame' = [frame EXCEPT ![Frame(r)] = EmptyFrame]
    /\ pc' = [pc EXCEPT ![r] = "done"]
    /\ UNCHANGED <<fs, DATA_DIR, route, seen>>

\* get_market_share()  (lines 24-37)
get_market_share(r) ==
    \/ Open(r, "/api/marketShare")
    \/ Exit(r, "/api/marketShare")
    \/ Return(r, "/api/marketShare")
    \/ Except(r, "/api/marketShare")

\* get_revenue_trends()  (lines 40-53)
get_revenue_trends(r) ==
    \/ Open(r, "/api/revenueTrends")
    \/ Exit(r, "/api/revenueTrends")
    \/ Return(r, "/api/revenueTrends")
    \/ Except(r, "/api/revenueTrends")

\* get_market_segmentation()  (lines 56-69)
get_market_segmentation(r) ==
    \/ Open(r, "/api/marketSegmentation")
    \/ Exit(r, "/api/marketSegmentation")
    \/ Return(r, "/api/marketSegmentation")
    \/ Except(r, "/api/marketSegmentation")

\* the data files are managed outside the server: one is deleted or replaced
EditFile(p, st) ==
    /\ fs[p] # st
    /\ fs' = [fs EXCEPT ![p] = st]
    /\ UNCHANGED <<DATA_DIR, pc, route, seen, frame, response>>

Serve(r) ==
    \/ index(r)
    \/ get_market_share(r)
    \/ get_revenue_trends(r)
    \/ get_market_segmentation(r)

Next ==
    \/ \E r \in Clients : Serve(r)
    \/ \E p \in Paths, st \in EditStates : EditFile(p, st)

\* the server under concurrent requests, the files changing underneath
Spec == Init /\ [][Next]_vars

\* one request at a time against files that stay as they are
NextFile == Serve(1)

SpecFile == InitFile /\ [][NextFile]_vars

(***************************************************************************)
(* What the claims are stated in.                                          *)
(***************************************************************************)
WellFormed(text) == Decode(text, "rfc8259").ok

JsonValueOf(text) == Decode(text, "rfc8259").val

RECURSIVE StructEq(_, _)

\* equality of JSON values: objects as unordered sets of members
StructEq(a, b) ==
    IF a.t # b.t THEN FALSE
    ELSE IF a.t = "object" THEN
        /\ Keys(a.v) = Keys(b.v)
        /\ \A k \in Keys(a.v) : StructEq(Lookup(a.v, k), Lookup(b.v, k))
    ELSE a.v = b.v

ErrorObject(msg) == JObject(<<<<"error", JString(msg)>>>>)

\* the response is JSON and its body reads as the value v
IsJsonBody(resp, v) ==
    /\ resp.mimetype = "application/json"
    /\ WellFormed(resp.body)
    /\ StructEq(JsonValueOf(resp.body), v)

IsNotFound(resp) ==
    /\ resp.status = 404
    /\ resp.fault = "none"
    /\ IsJsonBody(resp, ErrorObject("Data file not found"))

IsDecodeError(resp) ==
    /\ resp.status = 500
    /\ resp.fault = "none"
    /\ IsJsonBody(resp, ErrorObject("Error decoding JSON"))

\* request r has been answered by one of the three JSON endpoints
ApiDone(r) == pc[r] = "done" /\ route[r] \in ApiRoutes

\* the view of route rt run from start to end with nothing in between,
\* the resource's file being in state st
ServedAlone(rt, st) ==
    LET fsys == [p \in Paths |-> IF p = ResourcePath(rt) THEN st ELSE Absent]
        o == open_(fsys, os_path_join("data", ViewFile(rt)), OpenMode)
        l == json_load(o.f)
    IN  IF o.exc # "none" THEN except_clauses(o.exc)
        ELSE IF l.exc # "none" THEN except_clauses(l.exc)
        ELSE on_success(l.val)

(***************************************************************************)
(* C1 (as claimed): a well-formed backing file is answered 200 with a body *)
(* that reads as the JSON value stored in the file.                        *)
(***************************************************************************)
C1_RoundTrip ==
    \A r \in Clients :
        (ApiDone(r) /\ seen[r].kind = "text" /\ WellFormed(seen[r].content))
        => /\ response[r].status = 200
           /\ IsJsonBody(response[r], JsonValueOf(seen[r].content))

C3_MalformedIs500 ==
    \A r \in Clients :
        (ApiDone(r) /\ seen[r].kind = "text" /\ ~WellFormed(seen[r].content))
        => IsDecodeError(response[r])

(***************************************************************************)
(* C4 (as claimed): a backing file that exists but cannot be read is       *)
(* answered 404 with the body {"error": "Data file not found"}.            *)
(***************************************************************************)
C4_UnreadableIs404 ==
    \A r \in Clients :
        (ApiDone(r) /\ seen[r].kind = "noperm") => IsNotFound(response[r])

(***************************************************************************)
(* C5 (as claimed): every answered API request is 200 with the parsed      *)
(* value, the NotFound answer or the DecodeError answer, and no exception  *)
(* left the view function.                                                 *)
(***************************************************************************)
C5_ThreeOutcomes ==
    \A r \in Clients :
        ApiDone(r)
        => /\ response[r].fault = "none"
           /\ \/ response[r].status = 200 /\ response[r].mimetype = "application/json"
              \/ IsNotFound(response[r])
              \/ IsDecodeError(response[r])

(***************************************************************************)
(* C6: the answer of an endpoint depends on its own backing file only: two *)
(* answered requests for the same resource that found its file in the same *)
(* state got the same answer, whatever the other files were and whatever   *)
(* other requests failed.                                                  *)
(***************************************************************************)
C6_OwnFileOnly ==
    \A r1, r2 \in Clients :
        (ApiDone(r1) /\ ApiDone(r2) /\ route[r1] = route[r2] /\ seen[r1] = seen[r2])
        => response[r1] = response[r2]

\* b is answered normally next to a request for a that failed, a's file
\* being absent and the third file malformed
C6_Witness ==
    \E r1, r2 \in Clients :
        /\ ApiDone(r1) /\ ApiDone(r2)
        /\ route[r1] # route[r2]
        /\ response[r1].status = 404
        /\ fs[ResourcePath(route[r1])] = Absent
        /\ \E p \in Paths : fs[p] = Text(BadDoc)
        /\ seen[r2] = Text(GoodDoc)
        /\ response[r2].status = 200

(***************************************************************************)
(* C7: GET / is answered 200 whatever the data directory holds.            *)
(***************************************************************************)
C7_IndexIs200 ==
    \A r \in Clients :
        (pc[r] = "done" /\ route[r] = "/")
        => response[r].status = 200 /\ response[r].fault = "none"

\* the page is served with every data file missing
C7_Witness ==
    \E r \in Clients :
        /\ pc[r] = "done" /\ route[r] = "/"
        /\ response[r].status = 200
        /\ \A p \in Paths : fs[p] = Absent

(***************************************************************************)
(* C8: once a view has left its with block, by any path, the file it       *)
(* opened is closed; no answered request holds an open file.               *)
(***************************************************************************)
C8_HandleClosed ==
    \A r \in Clients :
        pc[r] \in {"return", "except", "done"} => ~frame[Frame(r)].f.open

\* a file that was opened and failed to parse is closed when the except
\* clause is reached
C8_Witness ==
    \E r \in Clients :
        /\ pc[r] = "except"
        /\ frame[Frame(r)].exc = "JSONDecodeError"
        /\ frame[Frame(r)].f.file.kind = "text"
        /\ ~frame[Frame(r)].f.open

(***************************************************************************)
(* C9: a request served among other requests, in any interleaving, gets    *)
(* the answer it would get served alone against the same file.             *)
(***************************************************************************)
C9_AsServedAlone ==
    \A r \in Clients :
        ApiDone(r) => response[r] = ServedAlone(route[r], seen[r])

\* one request for marketShare is answered while another one for the same
\* file is inside its with block
C9_Witness ==
    \E r1, r2 \in Clients :
        /\ r1 # r2
        /\ ApiDone(r1) /\ route[r1] = "/api/marketShare" /\ response[r1].status = 200
        /\ route[r2] = "/api/marketShare" /\ pc[r2] = "exit"
        /\ seen[r1] = seen[r2]

(***************************************************************************)
(* C10: no step of a request changes a data file or DATA_DIR.              *)
(***************************************************************************)
C10_ReadOnly ==
    [][(<<pc, route, frame, response>>' # <<pc, route, frame, response>>)
        => (fs' = fs /\ DATA_DIR' = DATA_DIR)]_vars

\* a failed and a successful request have been answered and the files are
\* as the requests found them
C10_Witness ==
    \E r1, r2 \in Clients :
        /\ ApiDone(r1) /\ response[r1].status = 500
        /\ ApiDone(r2) /\ response[r2].status = 200
        /\ fs[ResourcePath(route[r1])] = seen[r1]
        /\ fs[ResourcePath(route[r2])] = seen[r2]

====
